---- MODULE Spec2Model ----
(***************************************************************************)
(* Storefront application (src/app.py): accounts, cart, checkout against   *)
(* stock and the order ledger.                                             *)
(*                                                                         *)
(* The database tables are the state.  Every request is served by its own  *)
(* thread with its own database session (app.run, line 272).  A handler    *)
(* that reads, decides and then writes (add_to_cart, checkout, register)   *)
(* is modelled in two steps, the SELECTs and the commit, so that requests  *)
(* interleave as they do in the running server; the commit is one          *)
(* database transaction and is one step.                                   *)
(*                                                                         *)
(* Prices are Float columns in the source; the model keeps them as whole   *)
(* numbers of currency units.                                              *)
(***************************************************************************)
EXTENDS Integers, Sequences, FiniteSets, TLC

\* ---- bounds of the model -------------------------------------------------
InitStock == 2       \* stock of every product in the initial catalog
MaxRequests == 6     \* requests the clients send in one behaviour

\* ---- program constants ---------------------------------------------------
MinQuantity == 1
MaxQuantity == 100

Clients == {1, 2}    \* browser sessions; their requests run concurrently
Products == {1, 2}   \* product ids of the catalog
BadKey == 0          \* a form key or id that int() rejects
NoUser == 0          \* anonymous session
\* result of .first() on an empty query
NoRow == [id |-> 0, user_id |-> 0, product_id |-> 0, quantity |-> 0]

Emails == {"demo@example.com", "new@example.com"}
Passwords == {"123456", "other"}
Salts == {"s1"}
Names == {"Demo User"}
Addresses == {"123 Demo St, City"}
Absent == "<absent>"

\* a submitted form value: a numeric string or a non-numeric one
Num(n) == [num |-> TRUE, val |-> n]
NonNumeric == [num |-> FALSE, val |-> 0]
QtyInputs == {NonNumeric, Num(-1), Num(0), Num(2), Num(101)}

VARIABLES
    users,        \* table user: sequence of rows, id = position
    session,      \* login cookie of each client: a user id or NoUser
    stock,        \* product.stock
    price,        \* product.price
    cart,         \* table cart_item: set of rows [id, user_id, product_id, quantity]
    orders,       \* table order: sequence of rows [user_id, total], id = position
    order_items,  \* table order_item: sequence of rows
    pc,           \* position of each client's request in flight
    local,        \* the objects the request in flight has loaded
    flash,        \* the message flashed last and the client it went to
    requests      \* number of requests sent so far

vars == <<users, session, stock, price, cart, orders, order_items, pc, local, flash,
          requests>>

NoLocal == [op |-> "none"]

\* ---- helpers -------------------------------------------------------------
Max(a, b) == IF a >= b THEN a ELSE b
Min(a, b) == IF a <= b THEN a ELSE b

\* werkzeug.security: salted one-way hash and its check
generate_password_hash(salt, pw) == [salt |-> salt, digest |-> <<salt, pw>>]
check_password_hash(h, pw) == h.digest = <<h.salt, pw>>

\* a lookup that finds no row
UserByEmail_NotFound(e) == NoUser

\* User.query.filter_by(email=email).first()
UserByEmail(e) ==
    IF \E i \in 1..Len(users) : users[i].email = e
    THEN CHOOSE i \in 1..Len(users) :
            users[i].email = e /\ \A j \in 1..Len(users) : users[j].email = e => i <= j
    ELSE NoUser

\* CartItem.query.filter_by(user_id=u).all(), in rowid order
CartOf(u) == {r \in cart : r.user_id = u}

RECURSIVE SeqById(_)
SeqById(S) ==
    IF S = {} THEN <<>>
    ELSE LET r == CHOOSE x \in S : \A y \in S : x.id <= y.id
         IN <<r>> \o SeqById(S \ {r})

\* CartItem.query.filter_by(user_id=u, product_id=p).first()
FirstCartItem(u, p) ==
    LET S == {r \in cart : r.user_id = u /\ r.product_id = p}
    IN IF S = {} THEN NoRow ELSE CHOOSE x \in S : \A y \in S : x.id <= y.id

\* primary key given to an inserted cart_item row (SQLite rowid: max + 1)
NewCartId(rows) ==
    IF rows = {} THEN 1
    ELSE (CHOOSE m \in {r.id : r \in rows} : \A r \in rows : r.id <= m) + 1

\* the lower bound without the upper one
Sanitize_NoUpperBound(q) == Max(MinQuantity, q)

\* quantity = max(1, quantity); quantity = min(quantity, 100)
Sanitize(q) == Min(Max(MinQuantity, q), MaxQuantity)

\* ---- initial state: empty store seeded with the catalog and the demo user
Init ==
    /\ users = << [email |-> "demo@example.com",
                   password |-> generate_password_hash("s1", "123456"),
                   name |-> "Demo User",
                   address |-> "123 Demo St, City"] >>
    /\ session = [c \in Clients |-> NoUser]
    /\ stock = [p \in Products |-> InitStock]
    /\ price = [p \in Products |-> p]
    /\ cart = {}
    /\ requests = 0
    /\ orders = <<>>
    /\ order_items = <<>>
    /\ pc = [c \in Clients |-> "idle"]
    /\ local = [c \in Clients |-> NoLocal]
    /\ flash = <<0, "">>

\* ---- /login (lines 192-201) ----------------------------------------------
Login(c, email, password) ==
    /\ pc[c] = "idle"
    /\ requests < MaxRequests
    /\ requests' = requests + 1
    /\ LET user == UserByEmail(email)
       IN IF user # NoUser /\ check_password_hash(users[user].password, password)
          THEN /\ session' = [session EXCEPT ![c] = user]
               /\ UNCHANGED flash
          ELSE /\ flash' = <<c, "Invalid credentials">>
               /\ UNCHANGED session
    /\ UNCHANGED <<users, stock, price, cart, orders, order_items, pc, local>>

\* ---- /logout (lines 233-235) ---------------------------------------------
Logout(c) ==
    /\ pc[c] = "idle"
    /\ requests < MaxRequests
    /\ requests' = requests + 1
    /\ session[c] # NoUser
    /\ session' = [session EXCEPT ![c] = NoUser]
    /\ UNCHANGED <<users, stock, price, cart, orders, order_items, pc, local, flash>>

\* ---- /register (lines 204-218) -------------------------------------------
\* lines 206-213: hash the password, look the email up, build the row
RegisterCheck(c, email, password, salt, name, address) ==
    /\ pc[c] = "idle"
    /\ requests < MaxRequests
    /\ requests' = requests + 1
    /\ IF UserByEmail(email) # NoUser
       THEN /\ flash' = <<c, "Email already registered">>
            /\ UNCHANGED <<pc, local>>
       ELSE /\ pc' = [pc EXCEPT ![c] = "register"]
            /\ local' = [local EXCEPT ![c] =
                   [op |-> "register",
                    user |-> [email |-> email,
                              password |-> generate_password_hash(salt, password),
                              name |-> name,
                              address |-> address]]]
            /\ UNCHANGED flash
    /\ UNCHANGED <<users, session, stock, price, cart, orders, order_items>>

\* lines 214-217: INSERT and commit; the column is unique=True (line 19), so
\* the INSERT of a taken email raises and the request ends with no row added
RegisterCommit(c) ==
    /\ pc[c] = "register"
    /\ IF \E i \in 1..Len(users) : users[i].email = local[c].user.email
       THEN /\ UNCHANGED flash
            /\ UNCHANGED users
       ELSE /\ users' = Append(users, local[c].user)
            /\ flash' = <<c, "Registered! Please login.">>
    /\ pc' = [pc EXCEPT ![c] = "idle"]
    /\ local' = [local EXCEPT ![c] = NoLocal]
    /\ UNCHANGED <<session, stock, price, cart, orders, order_items, requests>>

\* ---- /profile POST (lines 222-228) ---------------------------------------
Profile(c, name, address) ==
    /\ pc[c] = "idle"
    /\ requests < MaxRequests
    /\ requests' = requests + 1
    /\ session[c] # NoUser
    /\ users' = [users EXCEPT ![session[c]] =
           [@ EXCEPT !.name = IF name = Absent THEN @ ELSE name,
                     !.address = IF address = Absent THEN @ ELSE address]]
    /\ flash' = <<c, "Profile updated">>
    /\ UNCHANGED <<session, stock, price, cart, orders, order_items, pc, local>>

\* ---- /cart POST with 'update' (lines 107-121) ----------------------------
\* form: the quantity_<key> fields, key -> submitted value
CartUpdate(c, form) ==
    /\ pc[c] = "idle"
    /\ requests < MaxRequests
    /\ requests' = requests + 1
    /\ session[c] # NoUser
    /\ cart' = { IF /\ r.user_id = session[c]
                    /\ r.product_id \in DOMAIN form
                    /\ form[r.product_id].num
                    /\ r = FirstCartItem(session[c], r.product_id)
                 THEN [r EXCEPT !.quantity = Sanitize(form[r.product_id].val)]
                 ELSE r : r \in cart }
    /\ UNCHANGED <<users, session, stock, price, orders, order_items, pc, local, flash>>

\* ---- /cart POST with 'remove' (lines 123-131) ----------------------------
CartRemove(c, key) ==
    /\ pc[c] = "idle"
    /\ requests < MaxRequests
    /\ requests' = requests + 1
    /\ session[c] # NoUser
    /\ cart' = IF key = BadKey THEN cart
               ELSE cart \ {FirstCartItem(session[c], key)}
    /\ UNCHANGED <<users, session, stock, price, orders, order_items, pc, local, flash>>

\* ---- /add_to_cart/<product_id> (lines 139-149) ---------------------------
\* lines 140-141: load the product and the user's line for it
AddToCartRead(c, product_id) ==
    /\ pc[c] = "idle"
    /\ requests < MaxRequests
    /\ requests' = requests + 1
    /\ session[c] # NoUser
    /\ LET cart_item == FirstCartItem(session[c], product_id)
       IN local' = [local EXCEPT ![c] =
              [op |-> "add", user |-> session[c],
               product_id |-> product_id, cart_item |-> cart_item]]
    /\ pc' = [pc EXCEPT ![c] = "add"]
    /\ UNCHANGED <<users, session, stock, price, cart, orders, order_items, flash>>

\* lines 142-148: UPDATE the loaded line by primary key, or INSERT a new one.
\* An UPDATE that matches no row raises and the request ends with no change.
AddToCartCommit(c) ==
    /\ pc[c] = "add"
    /\ LET cart_item == local[c].cart_item
           quantity == Min(cart_item.quantity + 1, MaxQuantity)
       IN IF cart_item # NoRow
          THEN IF quantity = cart_item.quantity
               THEN /\ UNCHANGED cart
                    /\ flash' = <<c, "Added to cart!">>
               ELSE IF \E r \in cart : r.id = cart_item.id
               THEN /\ cart' = { IF r.id = cart_item.id
                                 THEN [r EXCEPT !.quantity = quantity]
                                 ELSE r : r \in cart }
                    /\ flash' = <<c, "Added to cart!">>
               ELSE /\ UNCHANGED cart
                    /\ UNCHANGED flash
          ELSE /\ cart' = cart \cup
                      {[id |-> NewCartId(cart), user_id |-> local[c].user,
                        product_id |-> local[c].product_id, quantity |-> 1]}
               /\ flash' = <<c, "Added to cart!">>
    /\ pc' = [pc EXCEPT ![c] = "idle"]
    /\ local' = [local EXCEPT ![c] = NoLocal]
    /\ UNCHANGED <<users, session, stock, price, orders, order_items, requests>>

\* ---- /checkout POST (lines 153-179) --------------------------------------
\* the check looking at the first line only
NotEnoughStock_FirstLineOnly(cart_items, stk) ==
    stk[cart_items[1].product_id] < cart_items[1].quantity

\* line 162: some line asks for more than the stock
NotEnoughStock(cart_items, stk) ==
    \E i \in 1..Len(cart_items) :
        stk[cart_items[i].product_id] < cart_items[i].quantity

\* line 166: sum(item.product.price * item.quantity for item in cart_items)
RECURSIVE CartTotal(_, _)
CartTotal(cart_items, prc) ==
    IF cart_items = <<>> THEN 0
    ELSE prc[Head(cart_items).product_id] * Head(cart_items).quantity
         + CartTotal(Tail(cart_items), prc)

\* line 174, over the loop of line 170: the loaded product objects' stock
RECURSIVE DecreaseStock(_, _)
DecreaseStock(cart_items, stk) ==
    IF cart_items = <<>> THEN stk
    ELSE LET item == Head(cart_items)
         IN DecreaseStock(Tail(cart_items),
                [stk EXCEPT ![item.product_id] = Max(0, @ - item.quantity)])

\* the items recording the line total in place of the unit price
OrderItemsOf_LineTotal(order_id, cart_items, prc) ==
    [i \in 1..Len(cart_items) |->
        [order_id |-> order_id,
         product_id |-> cart_items[i].product_id,
         quantity |-> cart_items[i].quantity,
         price |-> prc[cart_items[i].product_id] * cart_items[i].quantity]]

\* line 171: one OrderItem per cart line, with the loaded product's price
OrderItemsOf(order_id, cart_items, prc) ==
    [i \in 1..Len(cart_items) |->
        [order_id |-> order_id,
         product_id |-> cart_items[i].product_id,
         quantity |-> cart_items[i].quantity,
         price |-> prc[cart_items[i].product_id]]]

\* lines 155-164: load the cart and its products, check the stock
CheckoutRead(c) ==
    /\ pc[c] = "idle"
    /\ requests < MaxRequests
    /\ requests' = requests + 1
    /\ session[c] # NoUser
    /\ LET cart_items == SeqById(CartOf(session[c]))
           loaded == {cart_items[i].product_id : i \in 1..Len(cart_items)}
       IN IF cart_items = <<>>
          THEN /\ flash' = <<c, "Cart is empty!">>
               /\ UNCHANGED <<pc, local>>
          ELSE IF NotEnoughStock(cart_items, stock)
          THEN /\ flash' = <<c, "Not enough stock">>
               /\ UNCHANGED <<pc, local>>
          ELSE /\ pc' = [pc EXCEPT ![c] = "checkout"]
               /\ local' = [local EXCEPT ![c] =
                      [op |-> "checkout", user |-> session[c],
                       cart_items |-> cart_items,
                       stock |-> [p \in loaded |-> stock[p]],
                       price |-> [p \in loaded |-> price[p]]]]
               /\ UNCHANGED flash
    /\ UNCHANGED <<users, session, stock, price, cart, orders, order_items>>

\* lines 166-178: INSERT the order and its items, UPDATE the loaded products'
\* stock, DELETE the loaded cart lines by primary key, commit
CheckoutCommit(c) ==
    /\ pc[c] = "checkout"
    /\ LET cart_items == local[c].cart_items
           order_id == Len(orders) + 1
           stk == DecreaseStock(cart_items, local[c].stock)
       IN /\ orders' = Append(orders,
                 [user_id |-> local[c].user,
                  total |-> CartTotal(cart_items, local[c].price)])
          /\ order_items' = order_items \o
                 OrderItemsOf(order_id, cart_items, local[c].price)
          /\ stock' = [p \in Products |->
                 IF p \in DOMAIN stk THEN stk[p] ELSE stock[p]]
          /\ cart' = {r \in cart :
                 \A i \in 1..Len(cart_items) : r.id # cart_items[i].id}
    /\ flash' = <<c, "Order placed successfully!">>
    /\ pc' = [pc EXCEPT ![c] = "idle"]
    /\ local' = [local EXCEPT ![c] = NoLocal]
    /\ UNCHANGED <<users, session, price, requests>>

\* ---- the server ----------------------------------------------------------
Keys == Products \cup {BadKey}
\* the forms submitted: quantity fields for some products, with or without a
\* field whose key is malformed (its value is never parsed)
WellFormed == UNION {[K -> QtyInputs] : K \in (SUBSET Products) \ {{}}}
WithBadKey(f) == [k \in DOMAIN f \cup {BadKey} |-> IF k = BadKey THEN Num(2) ELSE f[k]]
Forms == WellFormed \cup {WithBadKey(f) : f \in WellFormed}
                  \cup {[k \in {BadKey} |-> Num(2)]}

Next ==
    \/ \E c \in Clients, e \in Emails, pw \in Passwords : Login(c, e, pw)
    \/ \E c \in Clients : Logout(c)
    \/ \E c \in Clients, e \in Emails, pw \in Passwords, s \in Salts,
          n \in Names, a \in Addresses : RegisterCheck(c, e, pw, s, n, a)
    \/ \E c \in Clients : RegisterCommit(c)
    \/ \E c \in Clients, n \in Names \cup {Absent}, a \in Addresses \cup {Absent} :
          Profile(c, n, a)
    \/ \E c \in Clients, form \in Forms : CartUpdate(c, form)
    \/ \E c \in Clients, k \in Keys : CartRemove(c, k)
    \/ \E c \in Clients, p \in Products : AddToCartRead(c, p)
    \/ \E c \in Clients : AddToCartCommit(c)
    \/ \E c \in Clients : CheckoutRead(c)
    \/ \E c \in Clients : CheckoutCommit(c)

Spec == Init /\ [][Next]_vars

\* the same server when no two requests overlap: a request in flight is
\* finished before the next one is taken
NextSerial == Next /\ ((\E c \in Clients : pc[c] # "idle") =>
                          (\A c \in Clients : pc'[c] = "idle"))
SpecSerial == Init /\ [][NextSerial]_vars

\* ---- quantities the properties speak about -------------------------------
\* the OrderItems of an order
ItemsOf(order_id) == SelectSeq(order_items, LAMBDA it : it.order_id = order_id)

RECURSIVE SumSubtotals(_)
SumSubtotals(items) ==
    IF items = <<>> THEN 0
    ELSE Head(items).price * Head(items).quantity + SumSubtotals(Tail(items))

\* units of product p over a sequence of cart lines or order items
RECURSIVE SumQuantity(_, _)
SumQuantity(items, p) ==
    IF items = <<>> THEN 0
    ELSE (IF Head(items).product_id = p THEN Head(items).quantity ELSE 0)
         + SumQuantity(Tail(items), p)

\* some decrement of line 174 computes a negative difference, which max(0, .)
\* replaces by 0
RECURSIVE FloorTakesEffect(_, _)
FloorTakesEffect(cart_items, stk) ==
    /\ cart_items # <<>>
    /\ LET item == Head(cart_items)
       IN \/ stk[item.product_id] < item.quantity
          \/ FloorTakesEffect(Tail(cart_items),
                 [stk EXCEPT ![item.product_id] = Max(0, @ - item.quantity)])

\* a line of the user's cart asks for more than the product's stock
HasShortLine(u) == \E r \in CartOf(u) : r.quantity > stock[r.product_id]

\* ---- C1 ------------------------------------------------------------------
\* C1: a checkout POST by a user whose cart holds a line with quantity above
\* the product's stock ends at the stock check: no Order, no OrderItem, every
\* stock and every cart line (also the lines that would have passed) as before.
C1_RejectedCheckoutWritesNothing ==
    [][\A c \in Clients :
          (CheckoutRead(c) /\ HasShortLine(session[c])) =>
              /\ pc'[c] = "idle"
              /\ flash' = <<c, "Not enough stock">>
              /\ orders' = orders
              /\ order_items' = order_items
              /\ stock' = stock
              /\ cart' = cart]_vars

\* a checkout was rejected for a cart with a short line and a line that passes
C1_Witness ==
    \E c \in Clients :
        /\ flash = <<c, "Not enough stock">>
        /\ session[c] # NoUser
        /\ HasShortLine(session[c])
        /\ \E r \in CartOf(session[c]) : r.quantity <= stock[r.product_id]
        /\ orders = <<>>

\* ---- C2 ------------------------------------------------------------------
\* every Order's total is the sum of price x quantity over its OrderItems
TotalsMatch ==
    \A o \in 1..Len(orders) : orders[o].total = SumSubtotals(ItemsOf(o))

\* C2: after a successful checkout the user's cart is empty, the checkout has
\* made exactly one OrderItem per cart line it checked out, and every Order's
\* total is the sum of its OrderItems' price x quantity.
C2_CartEmptyAndTotalsMatch ==
    /\ []TotalsMatch
    /\ [][\A c \in Clients :
             CheckoutCommit(c) =>
                 LET u == local[c].user
                 IN /\ {r \in cart' : r.user_id = u} = {}
                    /\ Len(order_items') =
                           Len(order_items) + Len(local[c].cart_items)]_vars

\* ---- C3 ------------------------------------------------------------------
\* C3: a successful checkout leaves every purchased product's stock at its
\* stock before the checkout minus the quantity purchased, floored at 0, and
\* every other product's stock as it was.
C3_StockAfterCheckout ==
    [][\A c \in Clients :
          CheckoutCommit(c) =>
              \A p \in Products :
                  stock'[p] = Max(0, stock[p] - SumQuantity(local[c].cart_items, p))]_vars

\* ---- C4 ------------------------------------------------------------------
\* C4: whatever the interleaving of the checkouts, no stock update is lost:
\* each product's stock is its initial stock minus the units of it over all
\* OrderItems, and those units never exceed the initial stock.
C4_NoLostStockUpdate ==
    \A p \in Products :
        /\ stock[p] = InitStock - SumQuantity(order_items, p)
        /\ SumQuantity(order_items, p) <= InitStock

\* ---- C5 ------------------------------------------------------------------
\* C5: every CartItem's quantity is in [1, 100] in every reachable state, and
\* no cart update changes or removes a line whose submitted value is
\* non-numeric.
C5_QuantityInRange ==
    /\ [](\A r \in cart : r.quantity >= 1 /\ r.quantity <= 100)
    /\ [][\A c \in Clients : \A r \in cart :
             (pc[c] = "idle" /\ r.user_id = session[c] /\ r \notin cart') =>
                 \A form \in Forms :
                     (r.product_id \in DOMAIN form /\ ~form[r.product_id].num)
                         => ~CartUpdate(c, form)]_vars

\* a line clamped to 100 next to a line at the lower end
C5_Witness ==
    \E r1, r2 \in cart : r1.quantity = 100 /\ r2.quantity = 1

\* ---- C6 ------------------------------------------------------------------
\* C6: the ledger is append-only: no step changes or deletes an existing Order
\* or OrderItem, and each OrderItem added carries the product's unit price of
\* the moment it is added.
C6_LedgerAppendOnly ==
    [][/\ Len(orders') >= Len(orders)
       /\ \A o \in 1..Len(orders) : orders'[o] = orders[o]
       /\ Len(order_items') >= Len(order_items)
       /\ \A i \in 1..Len(order_items) : order_items'[i] = order_items[i]
       /\ \A i \in (Len(order_items) + 1)..Len(order_items') :
              order_items'[i].price = price[order_items'[i].product_id]]_vars

\* an order of both products is in the ledger and a later checkout has added
\* another order after it
C6_Witness ==
    /\ Len(orders) >= 2
    /\ \E i, j \in 1..Len(order_items) :
          /\ order_items[i].order_id = 1 /\ order_items[j].order_id = 1
          /\ order_items[i].product_id # order_items[j].product_id

\* ---- C7 ------------------------------------------------------------------
\* C7: there is at most one CartItem per (user, product) pair in every
\* reachable state, also when add_to_cart requests interleave.
C7_OneLinePerUserAndProduct ==
    \A r1, r2 \in cart :
        (r1.user_id = r2.user_id /\ r1.product_id = r2.product_id) => r1 = r2

\* ---- C8 ------------------------------------------------------------------
\* the password the account with this row was registered with
RegisteredPassword(user) == user.password.digest[2]

\* C8: no two accounts share an email; a registration with a taken email ends
\* with 'Email already registered' and the accounts unchanged; a login with a
\* registered email and its password opens the session of that account, and
\* any other login leaves the session as it was.
C8_RegisterAndLogin ==
    /\ [](\A i, j \in 1..Len(users) : users[i].email = users[j].email => i = j)
    /\ [][\A c \in Clients, e \in Emails, pw \in Passwords, s \in Salts,
             n \in Names, a \in Addresses :
             ((\E i \in 1..Len(users) : users[i].email = e)
                 /\ RegisterCheck(c, e, pw, s, n, a)) =>
                     /\ users' = users
                     /\ pc'[c] = "idle"
                     /\ flash' = <<c, "Email already registered">>]_vars
    /\ [][\A c \in Clients, e \in Emails, pw \in Passwords :
             Login(c, e, pw) =>
                 IF \E i \in 1..Len(users) :
                        users[i].email = e /\ RegisteredPassword(users[i]) = pw
                 THEN session'[c] # NoUser /\ users[session'[c]].email = e
                 ELSE session' = session /\ flash' = <<c, "Invalid credentials">>]_vars

\* a registered account is logged in, and a second registration of its email
\* was turned down
C8_Witness ==
    /\ Len(users) = 2
    /\ \E c \in Clients : session[c] = 2
    /\ \E c \in Clients : flash = <<c, "Email already registered">>

\* ---- C9 ------------------------------------------------------------------
\* C9: no stock is ever negative, no step raises a stock, and only the commit
\* of a checkout changes one.
C9_StockOnlyDecreases ==
    /\ [](\A p \in Products : stock[p] >= 0)
    /\ [][\A p \in Products : stock'[p] <= stock[p]]_vars
    /\ [][stock' # stock => \E c \in Clients : CheckoutCommit(c)]_vars

\* ---- C10 -----------------------------------------------------------------
\* C10: in no checkout that passed the stock check does the floor at 0 take
\* effect: every decrement is applied to a stock that is at least the line's
\* quantity.
C10_FloorNeverTakesEffect ==
    [][\A c \in Clients :
          CheckoutCommit(c) =>
              ~FloorTakesEffect(local[c].cart_items, local[c].stock)]_vars

====
